---- MODULE Spec2Model ----
(***************************************************************************)
(* A state-machine model of the HP1000 weewx driver (src/HP1000.py):       *)
(* the archive generator genStartupRecords with its binary search and      *)
(* paging, the session set-up connectToWeatherStation, and the live        *)
(* generator genLoopPackets with its sentinel handling and rain baseline.  *)
(*                                                                         *)
(* Encodings.  Python's None is the number None (-1); a local variable     *)
(* that has not been assigned yet is Unset (-2).  Time is counted in ticks,*)
(* TicksPerSec ticks to the second, so that time.mktime(d.timetuple()),    *)
(* which drops the sub-second part of a datetime, is not the identity.     *)
(* interp_data keeps the indices of the unpacked HISTORY_FILE reply: the   *)
(* years are interp_data[7..14] (newest first, 0 = unused slot) and the    *)
(* record counts interp_data[15..22].                                      *)
(***************************************************************************)
EXTENDS Integers, Sequences, FiniteSets, TLC

VARIABLES
    \* --- the weather station's archive (does not change during a run)
    interp_data,        \* the unpacked HISTORY_FILE reply, indices 7..22
    ws_frac,            \* sub-second part (ticks) of the record timestamps
    ws_rain,            \* the daily rain the records carry, tenths of a mm
    \* --- genStartupRecords
    apc,                \* position of the archive generator
    lastTimestamp,      \* the argument, reassigned at the end of each pass
    year_index, lower, upper, sample, start_record, record_count,
    rec_pos,            \* index of the record decoded next (base + k)
    record_datetime, last_record_date,
    local_last_rain_value,  \* genStartupRecords' local last_rain_value
    rec_rain,           \* _packet['rain'] of the record yielded last
    exc,                \* the exception that escaped, "" when none
    unread,             \* the path whose reply is still to come on the
                        \* connection after its receive failed, "" when none
    \* --- history of the archive generator, read by the properties only
    T0,                 \* lastTimestamp as the caller passed it
    yielded,            \* the records yielded so far, <<year_index, index>>
    batches,            \* record_count of each batch request of this pass
    first_year, first_start,  \* year slot and start index the first pass resolved
    pass_start,         \* start_record as resolved at the start of this pass
    pass_yields,        \* the records yielded in this pass, in order
    at_yield,           \* the generator is not started or stands at its yield
    first_pass,         \* the index has been fetched once only
    \* --- the driver's configuration and the station's "Set up" screen
    retry_count, max_retry,
    internal_test_mode, \* set by internal_testing(True)
    station_units,      \* the five unit selectors the SETUP reply carries
    \* --- connectToWeatherStation
    cpc,                \* position inside connectToWeatherStation
    ws_socket,          \* None, or the accepted connection
    network_retry_count, retry_counter, sender_addr,
    temperature_unit, pressure_unit, wind_unit, rain_unit, solar_unit,
    \* --- genLoopPackets
    lpc,                \* position of the live generator
    loop_retry_count,   \* genLoopPackets' own network_retry_count
    last_rain_value, last_rain_time,
    current_time,       \* time of day of the poll, datetime.now().time()
    nowrecord,          \* interp_data of the last NOWRECORD reply
    packet,             \* _packet, the last sample yielded
    prev_rain_value, prev_rain_time,  \* the baseline that poll started from
    \* --- create_cmd_string
    cmd, argument,      \* the arguments, strings as sequences of characters
    cmd_packet,         \* the packet returned, <<>> before the call
    \* --- internal test mode
    rainfall_amount,    \* tenths of a mm
    iteration_count

rainVars == <<local_last_rain_value, rec_rain>>
archVars == <<apc, lastTimestamp, year_index, lower, upper, sample,
              start_record, record_count, rec_pos, record_datetime,
              last_record_date, T0, yielded, batches, first_year,
              first_start, pass_start, pass_yields, at_yield, first_pass,
              rainVars>>
stationVars == <<interp_data, ws_frac, ws_rain, station_units>>
cfgVars == <<retry_count, max_retry, internal_test_mode>>
testVars == <<rainfall_amount, iteration_count>>
unitVars == <<temperature_unit, pressure_unit, wind_unit, rain_unit, solar_unit>>
connVars == <<cpc, ws_socket, network_retry_count, retry_counter, sender_addr>>
liveVars == <<lpc, loop_retry_count, last_rain_value, last_rain_time,
              current_time, nowrecord, packet, prev_rain_value, prev_rain_time>>
cmdVars == <<cmd, argument, cmd_packet>>
vars == <<stationVars, cfgVars, archVars, unitVars, connVars, liveVars,
          testVars, cmdVars, exc, unread>>
notArchVars == <<stationVars, cfgVars, unitVars, connVars, liveVars, testVars,
                 cmdVars>>
notLiveVars == <<stationVars, cfgVars, archVars, cmdVars>>

-----------------------------------------------------------------------------
(* Encodings and bounds *)

None == -1
Unset == -2

MaxYear == 2        \* the years of the model are 1..MaxYear
MaxCount == 3       \* records per populated year, 1..MaxCount
MaxRetryCount == 2  \* retry_count is configured in 1..MaxRetryCount
MaxNetRetry == 2    \* max_retry is configured in 1..MaxNetRetry
DayLen == 3         \* times of day 0..DayLen-1
TicksPerSec == 2    \* resolution of a record timestamp below one second
MaxWord == 2        \* letters of the mixed strings create_cmd_string is given

YearLo == 7         \* interp_data[7:15], the year slots, newest first
YearHi == 14
CountOff == 8       \* interp_data[year_index + 8] is the year's record count
BatchSize == 100    \* record_count = 100
ArchiveRainSentinel == 2147483647
SenderWidth == 8    \* string_to_null_padded('PC2000', 8)
CmdWidth == 8
ArgWidth == 12
PacketLen == 40
DefaultRetryCount == 5
DefaultMaxRetry == 3

\* long enough for the 250 records of the paging scenario
YearTicks == 1024 * TicksPerSec

SetMax(S) == CHOOSE x \in S : \A y \in S : y <= x
SetMin(S) == CHOOSE x \in S : \A y \in S : x <= y

\* start_date.year
YearOf(t) == t \div YearTicks

\* time.mktime(d.timetuple()): the datetime's whole seconds; then
\* datetime.fromtimestamp() of that value
MkTimeKeepsFraction(t) == t

MkTime(t) == (t \div TicksPerSec) * TicksPerSec

\* The timestamp of record idx of a year: records sit at the odd seconds of
\* their year, ws_frac ticks later, so a query can fall before, on, between
\* and after them.
RecordOffset(idx, frac) == (2 * idx + 1) * TicksPerSec + frac
RecordTimeOf(data, frac, yi, idx) == data[yi] * YearTicks + RecordOffset(idx, frac)
RecordTime(yi, idx) == RecordTimeOf(interp_data, ws_frac, yi, idx)

YearCount(yi) == interp_data[yi + CountOff]

\* .time() of a datetime: its offset into its day
TimeOfDay(t) == t % (DayLen * TicksPerSec)

\* rec_data[14] of record idx; the records of every year carry the readings
\* of ws_rain in turn
RecordRain(idx) == ws_rain[(idx % Len(ws_rain)) + 1]

-----------------------------------------------------------------------------
(* The archives and queries a run starts from *)

RECURSIVE DescSeq(_)
DescSeq(S) == IF S = {} THEN <<>> ELSE <<SetMax(S)>> \o DescSeq(S \ {SetMax(S)})

\* The HISTORY_FILE reply for years ys (descending) holding cs records each
IndexReply(ys, cs) ==
    [i \in YearLo .. (YearHi + CountOff) |->
        IF i <= YearHi
        THEN (IF i - YearLo + 1 <= Len(ys) THEN ys[i - YearLo + 1] ELSE 0)
        ELSE (IF i - YearHi <= Len(cs) THEN cs[i - YearHi] ELSE 0)]

Archives ==
    { IndexReply(DescSeq(S), cs) :
        <<S, cs>> \in { p \in (SUBSET (1 .. MaxYear)) \X UNION { [1 .. n -> 1 .. MaxCount] : n \in 0 .. MaxYear } :
                         Len(p[2]) = Cardinality(p[1]) } }

\* A start timestamp: a whole second of one of the years, from before the
\* first record to after the last one a year can hold
Queries ==
    {None} \cup { y * YearTicks + s * TicksPerSec :
                    y \in 1 .. MaxYear, s \in 0 .. (2 * MaxCount + 1) }

-----------------------------------------------------------------------------
(* Configuration, unit profile and session *)

UnitProfiles ==
    [temperature : 0 .. 1, pressure : 0 .. 2, wind : 0 .. 5, rain : 0 .. 1,
     solar : 0 .. 2]
MetricUnits ==
    [temperature |-> 0, pressure |-> 0, wind |-> 0, rain |-> 0, solar |-> 0]

\* stn_dict.get('retry_count', 5), stn_dict.get('max_retry', 3)
\* and self.internal_test_mode = False
DefaultConfig ==
    /\ retry_count = DefaultRetryCount /\ max_retry = DefaultMaxRetry
    /\ internal_test_mode = FALSE
SmallConfig ==
    /\ retry_count \in 1 .. MaxRetryCount
    /\ max_retry \in 1 .. MaxNetRetry
    /\ internal_test_mode = FALSE

\* No call of create_cmd_string is looked at
CommandIdle == cmd = <<>> /\ argument = <<>> /\ cmd_packet = <<>>

\* __init__: not connected; the unit attributes do not exist yet
SessionNone ==
    /\ ws_socket = None
    /\ unread = ""
    /\ CommandIdle
    /\ cpc = "idle"
    /\ network_retry_count = Unset /\ retry_counter = Unset
    /\ sender_addr = Unset
    /\ temperature_unit = Unset /\ pressure_unit = Unset /\ wind_unit = Unset
    /\ rain_unit = Unset /\ solar_unit = Unset

\* connectToWeatherStation has returned with a connection and the units
SessionReady ==
    /\ ws_socket = 1
    /\ unread = ""
    /\ CommandIdle
    /\ cpc = "idle"
    /\ network_retry_count = Unset /\ retry_counter = Unset
    /\ sender_addr = Unset
    /\ temperature_unit = station_units.temperature
    /\ pressure_unit = station_units.pressure
    /\ wind_unit = station_units.wind
    /\ rain_unit = station_units.rain
    /\ solar_unit = station_units.solar

-----------------------------------------------------------------------------
(* connectToWeatherStation *)

\* An exception leaves connectToWeatherStation, and the generator calling it
ConnRaise(e) ==
    /\ cpc' = "raised"
    /\ exc' = e
    /\ lpc' = IF lpc = "connect" THEN "raised" ELSE lpc

ConnGoes(pc) ==
    /\ cpc' = pc
    /\ UNCHANGED <<exc, lpc>>

\* "network_retry_count -= 1; if network_retry_count > 0: time.sleep(...);
\* break", the break leading to "continue" with sender_addr None
NetworkFailure ==
    /\ network_retry_count' = network_retry_count - 1
    /\ IF network_retry_count' > 0
       THEN ConnGoes("while")
       ELSE ConnRaise("RetriesExceeded")

\* The same where the code calls sleep(), a name the module never imports:
\* with retries left the call raises NameError
NetworkFailureSleep ==
    /\ network_retry_count' = network_retry_count - 1
    /\ IF network_retry_count' > 0
       THEN ConnRaise("NameError")
       ELSE ConnRaise("RetriesExceeded")

liveRest == <<loop_retry_count, last_rain_value, last_rain_time, current_time,
              nowrecord, packet, prev_rain_value, prev_rain_time>>

\* "while self.ws_socket is None" entered: a new broadcast round
ConnBegin ==
    /\ cpc = "while"
    /\ ws_socket = None
    /\ ~internal_test_mode
    /\ retry_counter' = retry_count
    /\ sender_addr' = None
    /\ ConnGoes("bcast_send")
    /\ UNCHANGED <<notLiveVars, testVars, unitVars, liveRest, ws_socket,
                   network_retry_count>>
    /\ UNCHANGED unread

\* "while self.ws_socket is None" left: the call returns
ConnReturn ==
    /\ cpc = "while"
    /\ ws_socket # None
    /\ cpc' = "returned"
    /\ lpc' = IF lpc = "connect" THEN "send" ELSE lpc
    /\ UNCHANGED <<notLiveVars, testVars, unitVars, liveRest, ws_socket,
                   network_retry_count, retry_counter, sender_addr, exc>>
    /\ UNCHANGED unread

\* sock.sendto(bcData, ...)
BcastSend ==
    /\ cpc = "bcast_send"
    /\ \E o \in {"ok", "error"} :
         IF o = "ok"
         THEN ConnGoes("bcast_recv") /\ UNCHANGED network_retry_count
         ELSE NetworkFailure
    /\ UNCHANGED <<notLiveVars, testVars, unitVars, liveRest, ws_socket, retry_counter,
                   sender_addr>>
    /\ UNCHANGED unread

\* data, sender_addr = sock.recvfrom(512)
BcastRecv ==
    /\ cpc = "bcast_recv"
    /\ \E o \in {"ok", "timeout", "error", "other"} :
         CASE o = "ok" ->
                /\ sender_addr' = 1
                /\ ConnGoes("bind")
                /\ UNCHANGED <<retry_counter, network_retry_count>>
           [] o = "timeout" ->
                /\ retry_counter' = retry_counter - 1
                /\ IF retry_counter' = 0
                   THEN sender_addr' = None /\ ConnGoes("while")
                   ELSE sender_addr' = sender_addr /\ ConnGoes("bcast_send")
                /\ UNCHANGED network_retry_count
           [] o = "error" ->
                /\ NetworkFailure
                /\ UNCHANGED <<retry_counter, sender_addr>>
           [] o = "other" ->
                /\ sender_addr' = None
                /\ ConnGoes("while")
                /\ UNCHANGED <<retry_counter, network_retry_count>>
    /\ UNCHANGED <<notLiveVars, testVars, unitVars, liveRest, ws_socket>>
    /\ UNCHANGED unread

\* sock.bind(("0.0.0.0", TCP_PORT))
Bind ==
    /\ cpc = "bind"
    /\ \E o \in {"ok", "error"} :
         IF o = "ok"
         THEN ConnGoes("accept") /\ UNCHANGED network_retry_count
         ELSE NetworkFailureSleep
    /\ UNCHANGED <<notLiveVars, testVars, unitVars, liveRest, ws_socket, retry_counter,
                   sender_addr>>
    /\ UNCHANGED unread

\* (self.ws_socket, address) = sock.accept(); retry_counter is the one the
\* broadcast loop has been counting down
Accept ==
    /\ cpc = "accept"
    /\ \E o \in {"ok", "timeout", "error", "other"} :
         CASE o = "ok" ->
                /\ ws_socket' = 1
                /\ retry_counter' = retry_count
                /\ ConnGoes("setup_send")
                /\ UNCHANGED network_retry_count
           [] o = "timeout" ->
                /\ retry_counter' = retry_counter - 1
                /\ IF retry_counter' = 0
                   THEN ConnGoes("while")
                   ELSE ConnGoes("accept")
                /\ UNCHANGED <<ws_socket, network_retry_count>>
           [] o = "error" ->
                /\ NetworkFailureSleep
                /\ UNCHANGED <<ws_socket, retry_counter>>
           [] o = "other" ->
                /\ ConnGoes("while")
                /\ UNCHANGED <<ws_socket, retry_counter, network_retry_count>>
    /\ UNCHANGED <<notLiveVars, testVars, unitVars, liveRest, sender_addr>>
    /\ unread' = IF ws_socket' # ws_socket THEN "" ELSE unread

\* self.ws_socket.send(self.create_cmd_string(argument='SETUP'))
SetupSend ==
    /\ cpc = "setup_send"
    /\ \E o \in {"ok", "error"} :
         IF o = "ok"
         THEN ConnGoes("setup_recv") /\ UNCHANGED network_retry_count
         ELSE NetworkFailureSleep
    /\ UNCHANGED <<notLiveVars, testVars, unitVars, liveRest, ws_socket, retry_counter,
                   sender_addr>>
    /\ UNCHANGED unread

\* rxData = self.ws_socket.recv(1024), struct.unpack and the unit attributes;
\* a reply that is not 55 bytes long makes struct.unpack raise
SetupRecv ==
    /\ cpc = "setup_recv"
    /\ \E o \in {"ok", "fail", "short"} :
         CASE o = "ok" ->
                /\ temperature_unit' = station_units.temperature
                /\ pressure_unit' = station_units.pressure
                /\ wind_unit' = station_units.wind
                /\ rain_unit' = station_units.rain
                /\ solar_unit' = station_units.solar
                /\ ConnGoes("while")
                /\ UNCHANGED ws_socket
           [] o = "fail" ->
                /\ ws_socket' = None
                /\ ConnGoes("while")
                /\ UNCHANGED unitVars
           [] o = "short" ->
                /\ ConnRaise("struct.error")
                /\ UNCHANGED <<unitVars, ws_socket>>
    /\ UNCHANGED <<notLiveVars, testVars, liveRest, network_retry_count, retry_counter,
                   sender_addr>>
    /\ unread' = IF ws_socket' = None THEN "" ELSE unread

ConnectNext ==
    \/ ConnBegin
    \/ ConnReturn
    \/ BcastSend
    \/ BcastRecv
    \/ Bind
    \/ Accept
    \/ SetupSend
    \/ SetupRecv

-----------------------------------------------------------------------------
(* genLoopPackets: the sample *)

\* A field of _packet is <<>> for None and <<v>> for the number v.  Numbers
\* are fixed point: temperatures, pressures and wind speeds in thousandths of
\* the METRICWX unit, radiation in hundredths of W/m2, rain in tenths of mm;
\* the raw readings are whole device units, except the cumulative rain, which
\* is counted in halves so that 12.5 is a reading.
Absent == <<>>
Some(v) == <<v>>

RainSentinel == 214748367 * 2      \* interp_data[16] >= 214748367
RainReading(whole, halves) == 2 * whole + halves

\* The integer square root, for x ** 1.5
RECURSIVE SqrtSearch(_, _, _)
SqrtSearch(n, lo, hi) ==
    IF lo = hi THEN lo
    ELSE LET mid == (lo + hi + 1) \div 2
         IN IF mid * mid <= n THEN SqrtSearch(n, mid, hi)
            ELSE SqrtSearch(n, lo, mid - 1)
ISqrt(n) == SqrtSearch(n, 0, 6000)

\* convert_units((x, unit, group), weewx.METRICWX)[0]
TempToMetric(x, tu) == IF tu = 0 THEN x * 1000 ELSE ((x - 32) * 5000) \div 9
PressureToMetric(x, pu) ==
    IF pu = 0 THEN x * 1000 ELSE IF pu = 1 THEN x * 33864 ELSE x * 1333

\* interp_data[13], interp_data[14] in thousandths after the rewrite the
\* Beaufort and ft/s branches make (0.836 * x ** 1.5, x * 0.3048)
WindRescaled(x, wu) ==
    IF wu = 4 THEN 836 * ((x * ISqrt(10000 * x)) \div 100)
    ELSE IF wu = 5 THEN (x * 3048) \div 10
    ELSE x * 1000
WindToMetric(m, wu) ==
    IF wu = 1 THEN (m * 10) \div 36
    ELSE IF wu = 2 THEN (m * 514) \div 1000
    ELSE IF wu = 3 THEN (m * 447) \div 1000
    ELSE m
WindField(x, wu) ==
    LET m == WindRescaled(x, wu)
    IN IF m >= 3276 * 1000 THEN Absent ELSE Some(WindToMetric(m, wu))

RadiationField(x, su) ==
    IF x > 2147480 THEN Absent
    ELSE IF su = 0 THEN Some(x * 402)
    ELSE IF su = 1 THEN Some(x * 4 + (x * 358) \div 1000)
    ELSE Some(x * 100)

\* _packet['rain'], lines 698-716
LoopRainNoSentinel(lrv, lrt, x, ct, ru) ==
    IF lrv = None THEN Absent
    ELSE IF ct > lrt /\ x >= lrv
    THEN (IF ru = 0 THEN Some((x - lrv) * 5) ELSE Some((x - lrv) * 127))
    ELSE Some(0)

LoopRainAnyUnit(lrv, lrt, x, ct, ru) ==
    IF lrv = None THEN Absent
    ELSE IF x >= RainSentinel THEN Absent
    ELSE IF ct > lrt /\ x >= lrv THEN Some((x - lrv) * 5)
    ELSE Some(0)

LoopRain(lrv, lrt, x, ct, ru) ==
    IF lrv = None THEN Absent
    ELSE IF x >= RainSentinel THEN Absent
    ELSE IF ct > lrt /\ x >= lrv
    THEN (IF ru = 0 THEN Some((x - lrv) * 5) ELSE Some((x - lrv) * 127))
    ELSE Some(0)

PacketKeys ==
    {"windDir", "inHumidity", "outHumidity", "inTemp", "outTemp", "dewPoint",
     "windChill", "pressure", "barometer", "windSpeed", "windGust",
     "radiation", "UV", "rain"}

\* _packet as built by lines 602-716 from the unpacked reply d; the key
\* 'barometer' is not set when the barometer reading is the sentinel, and
\* that branch assigns None to 'pressure'
LoopPacket(d, tu, pu, wu, ru, su, lrv, lrt, ct) ==
    [k \in (IF d[9] >= 3276 THEN PacketKeys \ {"barometer"} ELSE PacketKeys) |->
        CASE k = "windDir" -> (IF d[4] = 32767 THEN Absent ELSE Some(d[4]))
          [] k = "inHumidity" -> Some(d[5])
          [] k = "outHumidity" -> (IF d[6] = 127 THEN Absent ELSE Some(d[6]))
          [] k = "inTemp" ->
                (IF d[7] = 32767 THEN Absent ELSE Some(TempToMetric(d[7], tu)))
          [] k = "outTemp" ->
                (IF d[10] >= 3276 THEN Absent ELSE Some(TempToMetric(d[10], tu)))
          [] k = "dewPoint" ->
                (IF d[11] >= 3276 THEN Absent ELSE Some(TempToMetric(d[11], tu)))
          [] k = "windChill" ->
                (IF d[12] >= 3276 THEN Absent ELSE Some(TempToMetric(d[12], tu)))
          [] k = "pressure" ->
                (IF d[8] >= 3276 \/ d[9] >= 3276
                 THEN Absent ELSE Some(PressureToMetric(d[8], pu)))
          [] k = "barometer" -> Some(PressureToMetric(d[9], pu))
          [] k = "windSpeed" -> WindField(d[13], wu)
          [] k = "windGust" -> WindField(d[14], wu)
          [] k = "radiation" -> RadiationField(d[20], su)
          [] k = "UV" -> (IF d[21] < 0 THEN Absent ELSE Some(d[21]))
          [] k = "rain" -> LoopRain(lrv, lrt, d[16], ct, ru)]

\* "self.last_rain_value = interp_data[16]; self.last_rain_time = current_time"
RainBaselineKeptOnRollover(lrv, lrt, x, ct) ==
    IF lrv # None /\ ~(ct > lrt /\ x >= lrv)
    THEN [value |-> lrv, time |-> lrt]
    ELSE [value |-> x, time |-> ct]

RainBaseline(lrv, lrt, x, ct) == [value |-> x, time |-> ct]

NoPacket == [none |-> Absent]
NoRecord == [i \in {0} |-> 0]

\* The readings of internal test mode, rounded to whole units
NominalRecord ==
    [i \in {4, 5, 6, 7, 8, 9, 10, 11, 12, 13, 14, 16, 20, 21} |->
        CASE i = 4 -> 95 [] i = 5 -> 49 [] i = 6 -> 71 [] i = 7 -> 24
          [] i = 8 -> 1014 [] i = 9 -> 998 [] i = 10 -> 15 [] i = 11 -> 7
          [] i = 12 -> 15 [] i = 13 -> 1 [] i = 14 -> 3 [] i = 16 -> 0
          [] i = 20 -> 532 [] i = 21 -> 3]

\* The rain of an archive without sentinels: 1.0, 2.5, then 0.5 mm
SteadyRain == <<10, 25, 5>>

\* Cumulative daily rain 1.0, 10.0, 12.5 and the sentinel
RainReadings ==
    {RainReading(1, 0), RainReading(10, 0), RainReading(12, 1), RainSentinel}

\* The polls of the live specification: the rain and the time of day vary
LiveReadings == { [NominalRecord EXCEPT ![16] = r] : r \in RainReadings }
TimesOfDay == 0 .. (DayLen - 1)

\* The readings of the conversion specification: one group of fields at a
\* time runs over valid values, boundary values and sentinels
ConvertReadings ==
    { [NominalRecord EXCEPT ![4] = a, ![5] = b, ![6] = c] :
        a \in {95, 32767}, b \in {49, 127}, c \in {71, 127} }
    \cup { [NominalRecord EXCEPT ![7] = a, ![10] = b, ![11] = c, ![12] = e] :
        a \in {24, 3276, 32767}, b \in {15, 3275, 3276}, c \in {7, 3276},
        e \in {15, 3276} }
    \cup { [NominalRecord EXCEPT ![8] = a, ![9] = b] :
        a \in {1014, 3276}, b \in {998, 3276} }
    \cup { [NominalRecord EXCEPT ![13] = a, ![14] = b] :
        a \in {1, 12, 3275, 3276}, b \in {3, 3275, 3276} }
    \cup { [NominalRecord EXCEPT ![20] = a, ![21] = b] :
        a \in {532, 2147480, 2147481}, b \in {3, 0 - 1} }
    \cup { [NominalRecord EXCEPT ![16] = a] :
        a \in {RainReading(10, 0), RainReading(12, 1), RainSentinel} }

-----------------------------------------------------------------------------
(* genLoopPackets: the generator *)

LiveIdle ==
    /\ lpc = "idle"
    /\ rainfall_amount = Unset /\ iteration_count = Unset
    /\ loop_retry_count = Unset
    /\ last_rain_value = None /\ last_rain_time = None
    /\ current_time = Unset
    /\ nowrecord = NoRecord
    /\ packet = NoPacket
    /\ prev_rain_value = None /\ prev_rain_time = None

\* Lines 601-743 for the reply d received at time of day ct: build the
\* sample, move the rain baseline, yield
Poll(d, ct) ==
    /\ nowrecord' = d
    /\ current_time' = ct
    /\ packet' = LoopPacket(d, temperature_unit, pressure_unit, wind_unit,
                            rain_unit, solar_unit, last_rain_value,
                            last_rain_time, ct)
    /\ prev_rain_value' = last_rain_value
    /\ prev_rain_time' = last_rain_time
    /\ last_rain_value' = RainBaseline(last_rain_value, last_rain_time, d[16], ct).value
    /\ last_rain_time' = RainBaseline(last_rain_value, last_rain_time, d[16], ct).time
    /\ lpc' = "yielded"

\* First pull: "network_retry_count = self.max_retry"
LoopStart ==
    /\ lpc = "start"
    /\ loop_retry_count' = max_retry
    /\ lpc' = "head"
    /\ UNCHANGED <<notLiveVars, testVars, unitVars, connVars, exc, last_rain_value,
                   last_rain_time, current_time, nowrecord, packet,
                   prev_rain_value, prev_rain_time>>
    /\ UNCHANGED unread

\* "while True: self.connectToWeatherStation()"
LoopConnect ==
    /\ lpc = "head"
    /\ lpc' = "connect"
    /\ cpc' = "while"
    /\ network_retry_count' = max_retry
    /\ UNCHANGED <<notLiveVars, testVars, unitVars, liveRest, exc, ws_socket,
                   retry_counter, sender_addr>>
    /\ UNCHANGED unread

\* self.ws_socket.send(NOWRECORD); the retry branch calls the unimported
\* sleep() before it closes the socket
LoopSend ==
    /\ lpc = "send"
    /\ ~internal_test_mode
    /\ \E o \in {"ok", "error"} :
         IF o = "ok"
         THEN lpc' = "recv" /\ UNCHANGED <<loop_retry_count, exc>>
         ELSE /\ loop_retry_count' = loop_retry_count - 1
              /\ lpc' = "raised"
              /\ exc' = IF loop_retry_count' > 0
                        THEN "NameError" ELSE "RetriesExceeded"
    /\ UNCHANGED <<notLiveVars, testVars, unitVars, connVars, last_rain_value,
                   last_rain_time, current_time, nowrecord, packet,
                   prev_rain_value, prev_rain_time>>
    /\ UNCHANGED unread

\* rxData = self.ws_socket.recv(1024), struct.unpack, the sample, yield
LoopRecv ==
    /\ lpc = "recv"
    /\ \E o \in {"ok", "fail", "short"} :
         CASE o = "ok" ->
                /\ \E d \in LiveReadings, ct \in TimesOfDay : Poll(d, ct)
                /\ UNCHANGED <<ws_socket, exc>>
           [] o = "fail" ->
                /\ ws_socket' = None
                /\ lpc' = "head"
                /\ UNCHANGED <<last_rain_value, last_rain_time, current_time,
                               nowrecord, packet, prev_rain_value,
                               prev_rain_time, exc>>
           [] o = "short" ->
                /\ lpc' = "raised"
                /\ exc' = "struct.error"
                /\ UNCHANGED <<last_rain_value, last_rain_time, current_time,
                               nowrecord, packet, prev_rain_value,
                               prev_rain_time, ws_socket>>
    /\ UNCHANGED <<notLiveVars, testVars, unitVars, cpc, network_retry_count,
                   retry_counter, sender_addr, loop_retry_count>>
    /\ unread' = IF ws_socket' = None THEN "" ELSE unread

\* The next pull resumes after the yield, at the head of the loop
LoopResume ==
    /\ lpc = "yielded"
    /\ lpc' = "head"
    /\ UNCHANGED <<notLiveVars, testVars, unitVars, connVars, liveRest, exc>>
    /\ UNCHANGED unread

\* The sample of one reply under one unit profile and one rain baseline
ConvertPoll ==
    /\ lpc = "convert"
    /\ Poll(nowrecord, current_time)
    /\ UNCHANGED <<notLiveVars, testVars, unitVars, connVars, loop_retry_count, exc>>
    /\ UNCHANGED unread

ArchiveIdle ==
    /\ interp_data = IndexReply(<<>>, <<>>)
    /\ ws_frac = 0
    /\ ws_rain = <<0>>
    /\ apc = "idle"
    /\ lastTimestamp = None /\ T0 = None
    /\ year_index = Unset /\ lower = Unset /\ upper = Unset /\ sample = Unset
    /\ start_record = Unset /\ record_count = Unset /\ rec_pos = Unset
    /\ record_datetime = Unset /\ last_record_date = Unset
    /\ yielded = {} /\ batches = <<>>
    /\ first_year = Unset /\ first_start = Unset /\ pass_start = Unset
    /\ pass_yields = <<>> /\ at_yield = TRUE
    /\ first_pass = TRUE
    /\ local_last_rain_value = Unset /\ rec_rain = Unset

LiveNext ==
    \/ LoopStart
    \/ LoopConnect
    \/ LoopSend
    \/ LoopRecv
    \/ LoopResume
    \/ ConnectNext

\* One call of connectToWeatherStation on a driver that is not connected
ConnectInit ==
    /\ ArchiveIdle
    /\ unread = ""
    /\ CommandIdle
    /\ station_units \in UnitProfiles
    /\ SmallConfig
    /\ ws_socket = None
    /\ cpc = "while"
    /\ network_retry_count = max_retry
    /\ retry_counter = Unset /\ sender_addr = Unset
    /\ temperature_unit = Unset /\ pressure_unit = Unset /\ wind_unit = Unset
    /\ rain_unit = Unset /\ solar_unit = Unset
    /\ LiveIdle
    /\ exc = ""

ConnectSpec == ConnectInit /\ [][ConnectNext]_vars
\* The call runs on until it returns or raises
ConnectFairSpec == ConnectSpec /\ WF_vars(ConnectNext)

\* A new driver whose live generator is pulled again and again
LiveInit ==
    /\ rainfall_amount = Unset /\ iteration_count = Unset
    /\ ArchiveIdle
    /\ station_units \in { u \in UnitProfiles :
                             /\ u.temperature = 0 /\ u.pressure = 0
                             /\ u.wind = 0 /\ u.solar = 0 }
    /\ SmallConfig
    /\ SessionNone
    /\ lpc = "start"
    /\ loop_retry_count = Unset
    /\ last_rain_value = None /\ last_rain_time = None
    /\ current_time = Unset
    /\ nowrecord = NoRecord
    /\ packet = NoPacket
    /\ prev_rain_value = None /\ prev_rain_time = None
    /\ exc = ""

LiveSpec == LiveInit /\ [][LiveNext]_vars
\* The host keeps pulling and every transfer ends, one way or the other
LiveFairSpec == LiveSpec /\ WF_vars(LiveNext)

\* One conversion: any unit profile, any reading of ConvertReadings, with
\* and without a rain baseline
ConvertInit ==
    /\ rainfall_amount = Unset /\ iteration_count = Unset
    /\ ArchiveIdle
    /\ station_units \in UnitProfiles
    /\ DefaultConfig
    /\ SessionReady
    /\ lpc = "convert"
    /\ loop_retry_count = DefaultMaxRetry
    /\ nowrecord \in ConvertReadings
    /\ current_time = 1
    /\ \/ last_rain_value = None /\ last_rain_time = None
       \/ last_rain_value = RainReading(10, 0) /\ last_rain_time = 0
    /\ packet = NoPacket
    /\ prev_rain_value = None /\ prev_rain_time = None
    /\ exc = ""

ConvertSpec == ConvertInit /\ [][ConvertPoll]_vars

-----------------------------------------------------------------------------
(* create_cmd_string *)

\* Characters: the null, the blank str.format pads with, two letters
Nul == 0
Blank == 1
Letters == {2, 3}
PC2000 == <<2, 3, 2, 2, 3, 3>>   \* six letters

RECURSIVE Fill(_, _)
Fill(c, n) == IF n <= 0 THEN <<>> ELSE <<c>> \o Fill(c, n - 1)

\* str.ljust(width, c): never shortens the string
LJust(str, width, c) == str \o Fill(c, width - Len(str))

\* string_to_null_padded(source, max_length): source.ljust(max_length, '\0')
string_to_blank_padded(source, max_length) == LJust(source, max_length, Blank)

string_to_null_padded(source, max_length) == LJust(source, max_length, Nul)

\* '{0:<8s}{1:<8s}{2:<12s}'.format(...) of the three padded fields, then
\* padded to 40
create_cmd_string(c, a) ==
    string_to_null_padded(
        LJust(string_to_null_padded(PC2000, SenderWidth), SenderWidth, Blank)
        \o LJust(string_to_null_padded(c, CmdWidth), CmdWidth, Blank)
        \o LJust(string_to_null_padded(a, ArgWidth), ArgWidth, Blank),
        PacketLen)

\* The strings of the calls looked at: runs of one letter of every length
\* the field holds, and every string of at most MaxWord letters
Runs(width) == { Fill(c, n) : c \in Letters, n \in 0 .. width }
Words == UNION { [1 .. n -> Letters] : n \in 0 .. MaxWord }
Commands == Runs(CmdWidth) \cup Words
Arguments == Runs(ArgWidth) \cup Words

\* One call of create_cmd_string(cmd, argument)
CreateCmdString ==
    /\ cmd_packet = <<>>
    /\ cmd_packet' = create_cmd_string(cmd, argument)
    /\ UNCHANGED <<stationVars, cfgVars, archVars, unitVars, connVars,
                   liveVars, testVars, cmd, argument, exc, unread>>

CommandInit ==
    /\ ArchiveIdle
    /\ LiveIdle
    /\ station_units = MetricUnits
    /\ DefaultConfig
    /\ ws_socket = None /\ unread = "" /\ cpc = "idle"
    /\ network_retry_count = Unset /\ retry_counter = Unset
    /\ sender_addr = Unset
    /\ temperature_unit = Unset /\ pressure_unit = Unset /\ wind_unit = Unset
    /\ rain_unit = Unset /\ solar_unit = Unset
    /\ exc = ""
    /\ cmd \in Commands
    /\ argument \in Arguments
    /\ cmd_packet = <<>>

CommandSpec == CommandInit /\ [][CreateCmdString]_vars

-----------------------------------------------------------------------------
(* genStartupRecords *)

\* getHistoryData: the send and the first recv sit in a try block that turns
\* any exception into RetriesExceeded; the recv of the remaining chunks of a
\* long reply sits after it, outside any try block.
\* Without a connection (ws_socket None, or the placeholder of internal test
\* mode) the send raises at once, inside the try block.
Connected == ws_socket # None /\ ~internal_test_mode
HistoryDataOutcomes ==
    IF Connected THEN {"ok", "fail", "chunkfail"} ELSE {"fail"}

\* A transfer that failed on a live connection failed in the send, or in a
\* receive (timed out, interrupted) whose reply is still to come; the
\* handlers leave the connection open either way
ReplyLeft(failed) ==
    IF failed /\ Connected THEN {unread, "archive"} ELSE {unread}
getHistoryDataExc(o) == IF o = "fail" THEN "RetriesExceeded" ELSE "socket.error"

\* One turn of the binary search loop after the probe of record
\* (up + lo) // 2 returned the timestamp rec_dt
ProbeStepSameIndexOnMatch(lo, up, start_date, rec_dt) ==
    LET smp == (up + lo) \div 2 IN
    IF start_date = rec_dt
    THEN [lower |-> lo, upper |-> up, sample |-> smp, brk |-> TRUE]
    ELSE IF start_date > rec_dt
    THEN IF lo = smp
         THEN [lower |-> lo, upper |-> up, sample |-> smp + 1, brk |-> TRUE]
         ELSE [lower |-> smp + 1, upper |-> up, sample |-> smp, brk |-> FALSE]
    ELSE IF up = smp
         THEN [lower |-> lo, upper |-> up, sample |-> smp, brk |-> TRUE]
         ELSE [lower |-> lo, upper |-> smp, sample |-> smp, brk |-> FALSE]

ProbeStep(lo, up, start_date, rec_dt) ==
    LET smp == (up + lo) \div 2 IN
    IF start_date = rec_dt
    THEN [lower |-> lo, upper |-> up, sample |-> smp + 1, brk |-> TRUE]
    ELSE IF start_date > rec_dt
    THEN IF lo = smp
         THEN [lower |-> lo, upper |-> up, sample |-> smp + 1, brk |-> TRUE]
         ELSE [lower |-> smp + 1, upper |-> up, sample |-> smp, brk |-> FALSE]
    ELSE IF up = smp
         THEN [lower |-> lo, upper |-> up, sample |-> smp, brk |-> TRUE]
         ELSE [lower |-> lo, upper |-> smp, sample |-> smp, brk |-> FALSE]

\* record_count of the next batch request
BatchCountNoClip(cnt, start) ==
    IF BatchSize + start >= cnt THEN cnt - start ELSE BatchSize

BatchCount(cnt, start) ==
    IF BatchSize + start >= cnt THEN cnt - start - 1 ELSE BatchSize

\* The year slots holding data, and those whose year is >= y
PopulatedSlots == { i \in YearLo .. YearHi : interp_data[i] # 0 }

SlotsFromNewestOnly(y) ==
    LET S == { i \in YearLo .. YearHi : interp_data[i] >= y }
    IN IF S = {} THEN {} ELSE {SetMin(S)}

SlotsFromAnyYear(y) == { i \in YearLo .. YearHi : interp_data[i] # 0 }

SlotsFrom(y) == { i \in YearLo .. YearHi : interp_data[i] >= y }

\* "year_index -= 1": the slot of the next more recent year
AdvanceYearOlder(yi) == yi + 1

AdvanceYear(yi) == yi - 1

\* "rain = None if rec_data[14] == 2147483647 else rec_data[14] / 10.0"
RecordRainValue(raw) == IF raw = ArchiveRainSentinel THEN None ELSE raw

\* _packet['rain'] of a record, lines 911-919
ArchiveRain(lrd, lrv, rain, dt) ==
    IF lrd = None \/ rain = None \/ lrv = None THEN Absent
    ELSE IF TimeOfDay(lrd) > TimeOfDay(dt) \/ lrv > rain THEN Some(0)
    ELSE Some(rain - lrv)

Raise(e) ==
    /\ apc' = "raised"
    /\ exc' = e

\* The state genStartupRecords(T) starts from, the session being Ready
ArchiveStart(T) ==
    /\ apc = "index"
    /\ lastTimestamp = T
    /\ T0 = T
    /\ year_index = Unset /\ lower = Unset /\ upper = Unset /\ sample = Unset
    /\ start_record = Unset /\ record_count = Unset /\ rec_pos = Unset
    /\ record_datetime = Unset /\ last_record_date = Unset
    /\ exc = ""
    /\ yielded = {} /\ batches = <<>>
    /\ first_year = Unset /\ first_start = Unset /\ pass_start = Unset
    /\ pass_yields = <<>> /\ at_yield = TRUE
    /\ first_pass = TRUE
    /\ local_last_rain_value = Unset /\ rec_rain = Unset

\* READ HISTORY_FILE fails: the bare except raises RetriesExceeded
HistoryFileFail ==
    /\ apc = "index"
    /\ at_yield' = FALSE
    /\ UNCHANGED pass_yields
    /\ Raise("RetriesExceeded")
    /\ UNCHANGED <<notArchVars, lastTimestamp, year_index, lower, upper, sample,
                   start_record, record_count, rec_pos, record_datetime,
                   last_record_date, T0, yielded, batches, first_year,
                   first_start, pass_start>>
    /\ unread' \in ReplyLeft(apc' = "raised")
    /\ UNCHANGED first_pass
    /\ UNCHANGED rainVars

\* READ HISTORY_FILE answered, no timestamp: the populated slot of the oldest
\* year, record 0; [...][-1] of an empty list raises IndexError
HistoryFileNone ==
    /\ apc = "index"
    /\ Connected
    /\ at_yield' = FALSE
    /\ pass_yields' = <<>>
    /\ lastTimestamp = None
    /\ IF PopulatedSlots = {}
       THEN /\ Raise("IndexError")
            /\ UNCHANGED <<year_index, start_record, last_record_date>>
       ELSE /\ year_index' = SetMax(PopulatedSlots)
            /\ start_record' = 0
            /\ last_record_date' = None
            /\ apc' = "check"
            /\ exc' = exc
    /\ batches' = <<>>
    /\ UNCHANGED <<notArchVars, lastTimestamp, lower, upper, sample,
                   record_count, rec_pos, record_datetime, T0, yielded,
                   first_year, first_start, pass_start>>
    /\ UNCHANGED unread
    /\ UNCHANGED first_pass
    /\ local_last_rain_value' = IF apc' = "raised" THEN local_last_rain_value ELSE 0
    /\ UNCHANGED rec_rain

\* READ HISTORY_FILE answered, with a timestamp: scanning from the oldest slot
\* to the newest, the first slot whose year is >= the timestamp's year
HistoryFileSearch ==
    /\ apc = "index"
    /\ Connected
    /\ at_yield' = FALSE
    /\ pass_yields' = <<>>
    /\ lastTimestamp # None
    /\ last_record_date' = lastTimestamp
    /\ IF SlotsFrom(YearOf(lastTimestamp)) = {}
       THEN /\ apc' = "done"
            /\ UNCHANGED <<year_index, lower, upper>>
       ELSE /\ year_index' = SetMax(SlotsFrom(YearOf(lastTimestamp)))
            /\ lower' = 0
            /\ upper' = interp_data[year_index' + CountOff] - 1
            /\ apc' = "search"
    /\ batches' = <<>>
    /\ UNCHANGED <<notArchVars, lastTimestamp, sample, start_record,
                   record_count, rec_pos, record_datetime, exc, T0, yielded,
                   first_year, first_start, pass_start>>
    /\ UNCHANGED unread
    /\ UNCHANGED first_pass
    /\ UNCHANGED rainVars

\* lower == upper: the search ends at that index without a probe
SearchConverged ==
    /\ apc = "search"
    /\ at_yield' = FALSE
    /\ UNCHANGED pass_yields
    /\ lower = upper
    /\ sample' = upper
    /\ start_record' = upper
    /\ apc' = "check"
    /\ UNCHANGED <<notArchVars, lastTimestamp, year_index, lower, upper,
                   record_count, rec_pos, record_datetime, last_record_date,
                   exc, T0, yielded, batches, first_year, first_start,
                   pass_start>>
    /\ UNCHANGED unread
    /\ UNCHANGED first_pass
    /\ UNCHANGED rainVars

\* The timestamp a probe of record idx returns; what the station answers
\* for an index it holds no record for is not known: the first or the last
\* instant of the year
ProbeReplies(yi, idx) ==
    IF idx \in 0 .. (YearCount(yi) - 1)
    THEN {RecordTime(yi, idx)}
    ELSE {interp_data[yi] * YearTicks, (interp_data[yi] + 1) * YearTicks - 1}

\* One probe of the midpoint record and the comparison with start_date
SearchProbe ==
    /\ apc = "search"
    /\ at_yield' = FALSE
    /\ UNCHANGED pass_yields
    /\ lower # upper
    /\ \E o \in HistoryDataOutcomes :
         IF o = "ok"
         THEN \E dt \in ProbeReplies(year_index, (upper + lower) \div 2) :
              LET r == ProbeStep(lower, upper, lastTimestamp, dt)
              IN /\ record_datetime' = dt
                 /\ lower' = r.lower
                 /\ upper' = r.upper
                 /\ sample' = r.sample
                 /\ IF r.brk
                    THEN start_record' = r.sample /\ apc' = "check"
                    ELSE start_record' = start_record /\ apc' = "search"
                 /\ exc' = exc
         ELSE /\ Raise(getHistoryDataExc(o))
              /\ UNCHANGED <<lower, upper, sample, start_record, record_datetime>>
    /\ UNCHANGED <<notArchVars, lastTimestamp, year_index, record_count,
                   rec_pos, last_record_date, T0, yielded, batches,
                   first_year, first_start, pass_start>>
    /\ unread' \in ReplyLeft(apc' = "raised")
    /\ UNCHANGED first_pass
    /\ local_last_rain_value' = IF apc' = "search" \/ apc' = "check"
                                THEN RecordRain((upper + lower) \div 2)
                                ELSE local_last_rain_value
    /\ UNCHANGED rec_rain

IsLastRecordPastEnd(yi, start) == yi = YearLo /\ start = YearCount(yi)

IsLastRecord(yi, start) == yi = YearLo /\ start = YearCount(yi) - 1

\* "if year_index == 7 and start_record == interp_data[year_index + 8] - 1: break"
CheckLast ==
    /\ apc = "check"
    /\ at_yield' = FALSE
    /\ UNCHANGED pass_yields
    /\ IF IsLastRecord(year_index, start_record)
       THEN apc' = "done"
       ELSE apc' = "page"
    /\ pass_start' = start_record
    /\ IF first_year = Unset
       THEN first_year' = year_index /\ first_start' = start_record
       ELSE UNCHANGED <<first_year, first_start>>
    /\ UNCHANGED <<notArchVars, lastTimestamp, year_index, lower, upper, sample,
                   start_record, record_count, rec_pos, record_datetime,
                   last_record_date, exc, T0, yielded, batches>>
    /\ UNCHANGED unread
    /\ UNCHANGED first_pass
    /\ UNCHANGED rainVars

\* Head of "while year_index >= 7": size the next batch, or leave the loop
PageHead ==
    /\ apc = "page"
    /\ at_yield' = FALSE
    /\ UNCHANGED pass_yields
    /\ IF year_index >= YearLo
       THEN /\ record_count' = BatchCount(YearCount(year_index), start_record)
            /\ apc' = IF record_count' > 0 THEN "fetch" ELSE "endbatch"
       ELSE /\ record_count' = record_count
            /\ apc' = "endpass"
    /\ UNCHANGED <<notArchVars, lastTimestamp, year_index, lower, upper, sample,
                   start_record, rec_pos, record_datetime, last_record_date,
                   exc, T0, yielded, batches, first_year, first_start,
                   pass_start>>
    /\ UNCHANGED unread
    /\ UNCHANGED first_pass
    /\ UNCHANGED rainVars

\* getHistoryData(year, record_count, start_record) for one batch
FetchBatch ==
    /\ apc = "fetch"
    /\ at_yield' = FALSE
    /\ UNCHANGED pass_yields
    /\ \E o \in HistoryDataOutcomes :
         IF o = "ok"
         THEN /\ rec_pos' = start_record
              /\ start_record' = start_record + record_count
              /\ apc' = "records"
              /\ exc' = exc
         ELSE /\ Raise(getHistoryDataExc(o))
              /\ UNCHANGED <<rec_pos, start_record>>
    /\ batches' = Append(batches, record_count)
    /\ UNCHANGED <<notArchVars, lastTimestamp, year_index, lower, upper, sample,
                   record_count, record_datetime, last_record_date, T0,
                   yielded, first_year, first_start, pass_start>>
    /\ unread' \in ReplyLeft(apc' = "raised")
    /\ UNCHANGED first_pass
    /\ UNCHANGED rainVars

\* Decode the next record of the batch and yield its sample; the rain test
\* reads last_rain_value, which no line has assigned when the search ended
\* without a probe
YieldRecord ==
    /\ apc = "records"
    /\ record_count > 0
    /\ record_datetime' = RecordTime(year_index, rec_pos)
    /\ LET rain == RecordRainValue(RecordRain(rec_pos)) IN
       IF last_record_date # None /\ rain # None
          /\ local_last_rain_value = Unset
       THEN /\ Raise("UnboundLocalError")
            /\ at_yield' = FALSE
            /\ UNCHANGED <<pass_yields, yielded, record_count, rec_pos,
                           last_record_date, rainVars>>
       ELSE /\ rec_rain' = ArchiveRain(last_record_date,
                                       local_last_rain_value, rain,
                                       record_datetime')
            /\ local_last_rain_value' = rain
            /\ at_yield' = TRUE
            /\ pass_yields' = Append(pass_yields, <<year_index, rec_pos>>)
            /\ yielded' = yielded \cup {<<year_index, rec_pos>>}
            /\ record_count' = record_count - 1
            /\ rec_pos' = rec_pos + 1
            /\ last_record_date' = record_datetime'
            /\ apc' = IF record_count' > 0 THEN "records" ELSE "endbatch"
            /\ exc' = exc
    /\ UNCHANGED <<notArchVars, lastTimestamp, year_index, lower, upper, sample,
                   start_record, T0, batches, first_year, first_start,
                   pass_start>>
    /\ UNCHANGED unread
    /\ UNCHANGED first_pass

\* "if start_record >= year_record_count - 1": on to the next more recent year
EndBatch ==
    /\ apc = "endbatch"
    /\ at_yield' = FALSE
    /\ UNCHANGED pass_yields
    /\ IF start_record >= YearCount(year_index) - 1
       THEN year_index' = AdvanceYear(year_index) /\ start_record' = 0
       ELSE UNCHANGED <<year_index, start_record>>
    /\ apc' = "page"
    /\ UNCHANGED <<notArchVars, lastTimestamp, lower, upper, sample,
                   record_count, rec_pos, record_datetime, last_record_date,
                   exc, T0, yielded, batches, first_year, first_start,
                   pass_start>>
    /\ UNCHANGED unread
    /\ UNCHANGED first_pass
    /\ UNCHANGED rainVars

\* "lastTimestamp = time.mktime(record_datetime.timetuple())" and around again
EndPass ==
    /\ apc = "endpass"
    /\ at_yield' = FALSE
    /\ UNCHANGED pass_yields
    /\ IF record_datetime = Unset
       THEN Raise("UnboundLocalError") /\ UNCHANGED lastTimestamp
       ELSE /\ lastTimestamp' = MkTime(record_datetime)
            /\ apc' = "index"
            /\ exc' = exc
    /\ UNCHANGED <<notArchVars, year_index, lower, upper, sample, start_record,
                   record_count, rec_pos, record_datetime, last_record_date,
                   T0, yielded, batches, first_year, first_start, pass_start>>
    /\ UNCHANGED unread
    /\ first_pass' = (first_pass /\ apc' = "raised")
    /\ UNCHANGED rainVars

ArchiveNext ==
    \/ HistoryFileFail
    \/ HistoryFileNone
    \/ HistoryFileSearch
    \/ SearchConverged
    \/ SearchProbe
    \/ CheckLast
    \/ PageHead
    \/ FetchBatch
    \/ YieldRecord
    \/ EndBatch
    \/ EndPass

ArchiveInit ==
    /\ ws_rain = SteadyRain
    /\ interp_data \in Archives
    /\ ws_frac \in 0 .. (TicksPerSec - 1)
    /\ \E T \in Queries : ArchiveStart(T)
    /\ station_units = MetricUnits
    /\ DefaultConfig
    /\ SessionReady
    /\ LiveIdle

ArchiveSpec == ArchiveInit /\ [][ArchiveNext]_vars

\* The generator is pulled until it ends
ArchiveFairSpec == ArchiveSpec /\ WF_vars(ArchiveNext)

\* The paging scenario: one year of 250 records, read from record 0 (no
\* timestamp), from record 180 (a timestamp between records 179 and 180) or
\* with a timestamp after the last record
PagingInit ==
    /\ ws_rain = SteadyRain
    /\ interp_data = IndexReply(<<1>>, <<250>>)
    /\ ws_frac \in 0 .. (TicksPerSec - 1)
    /\ \E T \in {None, YearTicks + 360 * TicksPerSec, YearTicks + 500 * TicksPerSec} :
         ArchiveStart(T)
    /\ station_units = MetricUnits
    /\ DefaultConfig
    /\ SessionReady
    /\ LiveIdle

PagingSpec == PagingInit /\ [][ArchiveNext]_vars

\* The same observations, a time of day and the day's rain so far, given to
\* the rain rule of genLoopPackets as a NOWRECORD reading (halves of a mm)
\* and to the rain rule of genStartupRecords as a record (tenths of a mm)
RecordRainOf(reading) ==
    IF reading = RainSentinel THEN ArchiveRainSentinel ELSE 5 * reading

Observe ==
    /\ lpc \in {"observe", "yielded"}
    /\ \E ct \in TimesOfDay, reading \in RainReadings :
         LET rain == RecordRainValue(RecordRainOf(reading))
             dt   == ct * TicksPerSec
         IN /\ Poll([NominalRecord EXCEPT ![16] = reading], ct)
            /\ record_datetime' = dt
            /\ rec_rain' = ArchiveRain(last_record_date,
                                       local_last_rain_value, rain, dt)
            /\ local_last_rain_value' = rain
            /\ last_record_date' = dt
    /\ UNCHANGED <<stationVars, cfgVars, unitVars, connVars, testVars,
                   cmdVars, exc, unread, loop_retry_count>>
    /\ UNCHANGED <<apc, lastTimestamp, year_index, lower, upper, sample,
                   start_record, record_count, rec_pos, T0, yielded, batches,
                   first_year, first_start, pass_start, pass_yields, at_yield,
                   first_pass>>

\* Both rules hold the same baseline: a reading without sentinel and its
\* time of day
RainInit ==
    /\ interp_data = IndexReply(<<>>, <<>>)
    /\ ws_frac = 0
    /\ ws_rain = <<0>>
    /\ station_units = MetricUnits
    /\ DefaultConfig
    /\ SessionReady
    /\ exc = ""
    /\ apc = "idle"
    /\ lastTimestamp = None /\ T0 = None
    /\ year_index = Unset /\ lower = Unset /\ upper = Unset /\ sample = Unset
    /\ start_record = Unset /\ record_count = Unset /\ rec_pos = Unset
    /\ yielded = {} /\ batches = <<>>
    /\ first_year = Unset /\ first_start = Unset /\ pass_start = Unset
    /\ pass_yields = <<>> /\ at_yield = TRUE
    /\ first_pass = TRUE
    /\ rainfall_amount = Unset /\ iteration_count = Unset
    /\ loop_retry_count = DefaultMaxRetry
    /\ lpc = "observe"
    /\ nowrecord = NoRecord
    /\ packet = NoPacket
    /\ rec_rain = Unset
    /\ prev_rain_value = None /\ prev_rain_time = None
    /\ \E ct \in TimesOfDay, reading \in RainReadings \ {RainSentinel} :
         /\ current_time = ct
         /\ last_rain_value = reading
         /\ last_rain_time = ct
         /\ record_datetime = ct * TicksPerSec
         /\ last_record_date = ct * TicksPerSec
         /\ local_last_rain_value = RecordRainOf(reading)

RainSpec == RainInit /\ [][Observe]_vars

\* The index as the station sends it: the code reads the record counts from
\* the reply as they are, a listed year may hold no record
SearchInit ==
    /\ ws_rain = SteadyRain
    /\ interp_data \in { IndexReply(<<2, 1>>, <<c, d>>) :
                           c \in 0 .. MaxCount, d \in 0 .. MaxCount }
    /\ ws_frac \in 0 .. (TicksPerSec - 1)
    /\ \E T \in Queries : ArchiveStart(T)
    /\ station_units = MetricUnits
    /\ DefaultConfig
    /\ SessionReady
    /\ LiveIdle

SearchSpec == SearchInit /\ [][ArchiveNext]_vars

-----------------------------------------------------------------------------
(* Internal test mode, and the driver with both generators *)

\* "self.max_iterations = 2 * 3 * 6 * 2 * 3 * 2"
TestIterations == 432

\* connectToWeatherStation in internal test mode: no network, the units
\* C, hPa, m/s, mm, W/m2 and a placeholder in ws_socket
TestConnect ==
    /\ cpc = "while"
    /\ ws_socket = None
    /\ internal_test_mode
    /\ temperature_unit' = 0 /\ pressure_unit' = 0 /\ wind_unit' = 0
    /\ rain_unit' = 0 /\ solar_unit' = 2
    /\ rainfall_amount' = 0
    /\ iteration_count' = 0
    /\ ws_socket' = 1
    /\ ConnGoes("while")
    /\ UNCHANGED <<notLiveVars, liveRest, network_retry_count, retry_counter,
                   sender_addr>>
    /\ unread' = IF ws_socket' # ws_socket THEN "" ELSE unread

\* The test data of lines 526-599 in the units selected, cut to whole device
\* units (the rain to halves); rain is the rainfall so far in tenths of a mm
TestRecord(tu, pu, wu, su, ru, rain) ==
    [NominalRecord EXCEPT
        ![7] = IF tu = 0 THEN 24 ELSE 76,
        ![10] = IF tu = 0 THEN 15 ELSE 60,
        ![11] = IF tu = 0 THEN 7 ELSE 45,
        ![12] = IF tu = 0 THEN 15 ELSE 60,
        ![8] = IF pu = 0 THEN 1014 ELSE IF pu = 1 THEN 29 ELSE 760,
        ![9] = IF pu = 0 THEN 998 ELSE IF pu = 1 THEN 29 ELSE 748,
        ![13] = CASE wu = 0 -> 1 [] wu = 1 -> 5 [] wu = 2 -> 2 [] wu = 3 -> 3
                  [] wu = 4 -> 1 [] OTHER -> 4,
        ![14] = CASE wu = 0 -> 3 [] wu = 1 -> 13 [] wu = 2 -> 7 [] wu = 3 -> 8
                  [] wu = 4 -> 3 [] OTHER -> 12,
        ![20] = IF su = 0 THEN 132 ELSE IF su = 1 THEN 12223 ELSE 532,
        ![16] = IF ru = 0 THEN (2 * rain) \div 10 ELSE (2 * rain) \div 254]

\* "self.x_unit += 1; if self.x_unit > last: self.x_unit = 0"
NextUnitStuck(u, last) == u

NextUnit(u, last) == IF u + 1 > last THEN 0 ELSE u + 1

\* One poll of internal test mode: the test data, the sample, the baseline,
\* then every unit selector moves on and the iterations are counted;
\* sys.exit() after TestIterations samples
TestPoll ==
    /\ lpc = "send"
    /\ internal_test_mode
    /\ \E ct \in TimesOfDay :
         LET d == TestRecord(temperature_unit, pressure_unit, wind_unit,
                             solar_unit, rain_unit, rainfall_amount)
         IN IF iteration_count + 1 > TestIterations
            THEN /\ lpc' = "raised"
                 /\ exc' = "SystemExit"
                 /\ nowrecord' = d
                 /\ current_time' = ct
                 /\ prev_rain_value' = last_rain_value
                 /\ prev_rain_time' = last_rain_time
                 /\ last_rain_value' = RainBaseline(last_rain_value, last_rain_time, d[16], ct).value
                 /\ last_rain_time' = RainBaseline(last_rain_value, last_rain_time, d[16], ct).time
                 /\ packet' = packet
            ELSE Poll(d, ct) /\ exc' = exc
    /\ rainfall_amount' = rainfall_amount + 1
    /\ temperature_unit' = NextUnit(temperature_unit, 1)
    /\ pressure_unit' = NextUnit(pressure_unit, 2)
    /\ wind_unit' = NextUnit(wind_unit, 5)
    /\ solar_unit' = NextUnit(solar_unit, 2)
    /\ rain_unit' = NextUnit(rain_unit, 1)
    /\ iteration_count' = iteration_count + 1
    /\ UNCHANGED <<notLiveVars, connVars, loop_retry_count>>
    /\ UNCHANGED unread

\* A generator runs only while the host pulls it: from the pull to its next
\* yield, its return or its exception.  genLoopPackets has one yield, after
\* the reply has been read and the sample built
LiveSuspended == lpc \in {"idle", "start", "yielded", "raised"}

\* genStartupRecords has one yield, inside the loop over a batch received
ArchiveSuspended == at_yield \/ apc \in {"idle", "done", "raised"}

\* The host interleaves its pulls: a step of one generator while the other
\* one is suspended.  The replay is started while a session is up, so that
\* its own connectToWeatherStation call returns at once.
LivePull(step) == ArchiveSuspended /\ step

ArchivePull(step) ==
    /\ LiveSuspended
    /\ (apc = "index" /\ at_yield) => ws_socket # None
    /\ step

DriverNext ==
    \/ LivePull(LoopStart)
    \/ LivePull(LoopConnect)
    \/ LivePull(LoopSend)
    \/ LivePull(LoopRecv)
    \/ LivePull(LoopResume)
    \/ LivePull(ConnBegin)
    \/ LivePull(ConnReturn)
    \/ LivePull(BcastSend)
    \/ LivePull(BcastRecv)
    \/ LivePull(Bind)
    \/ LivePull(Accept)
    \/ LivePull(SetupSend)
    \/ LivePull(SetupRecv)
    \/ LivePull(TestConnect)
    \/ LivePull(TestPoll)
    \/ ArchivePull(HistoryFileFail)
    \/ ArchivePull(HistoryFileNone)
    \/ ArchivePull(HistoryFileSearch)
    \/ ArchivePull(SearchConverged)
    \/ ArchivePull(SearchProbe)
    \/ ArchivePull(CheckLast)
    \/ ArchivePull(PageHead)
    \/ ArchivePull(FetchBatch)
    \/ ArchivePull(YieldRecord)
    \/ ArchivePull(EndBatch)
    \/ ArchivePull(EndPass)

\* A new driver in either mode, a station with two years of records stamped
\* inside a second, live polling and a replay from the start of the archive
DriverInit ==
    /\ ws_rain = SteadyRain
    /\ interp_data = IndexReply(<<2, 1>>, <<1, 2>>)
    /\ ws_frac = 1
    /\ ArchiveStart(None)
    /\ station_units = [temperature |-> 1, pressure |-> 2, wind |-> 3,
                        rain |-> 1, solar |-> 0]
    /\ retry_count = 1 /\ max_retry = 1
    /\ internal_test_mode \in BOOLEAN
    /\ SessionNone
    /\ rainfall_amount = Unset /\ iteration_count = Unset
    /\ lpc = "start"
    /\ loop_retry_count = Unset
    /\ last_rain_value = None /\ last_rain_time = None
    /\ current_time = Unset
    /\ nowrecord = NoRecord
    /\ packet = NoPacket
    /\ prev_rain_value = None /\ prev_rain_time = None

DriverSpec == DriverInit /\ [][DriverNext]_vars

-----------------------------------------------------------------------------
(* Properties of the archive generator *)

IndicesOf(yi) == 0 .. (YearCount(yi) - 1)

\* The binary search has just resolved start_record for lastTimestamp
SearchResolved == apc = "check" /\ lastTimestamp # None

Owed ==
    IF first_year = Unset THEN {}
    ELSE { r \in (YearLo .. YearHi) \X (0 .. (MaxCount + BatchSize)) :
             /\ r[1] <= first_year
             /\ r[2] \in IndicesOf(r[1])
             /\ (r[1] = first_year => r[2] >= first_start) }

\* C2 as stated: when genStartupRecords completes, every record of the
\* selected year from the resolved start index up to and including index
\* count-1, and every record 0..count-1 of each more recent year, has been
\* yielded.
C2_AllRecordsYielded == apc = "done" => Owed \subseteq yielded

\* C3 as stated: against an archive that receives no further records the
\* generator ends after finitely many round trips.
C3_Completes == <>(apc \in {"done", "raised"})

\* C5 as stated: every sample yielded by genStartupRecords(T) comes from a
\* record whose timestamp is at or after T, in every pass.
C5_NothingBeforeStart ==
    T0 # None => \A r \in yielded : RecordTime(r[1], r[2]) >= T0

C5_Witness ==
    /\ T0 # None
    /\ \E r \in yielded : RecordTime(r[1], r[2]) > T0 /\ r[2] > 0

\* C10 as stated: whatever transport error ends an archive pass, the exception
\* that escapes is RetriesExceeded.
C10_OnlyRetriesExceeded ==
    (apc = "raised" /\ exc \in {"RetriesExceeded", "socket.error"})
        => exc = "RetriesExceeded"

IsPrefix(a, b) == Len(a) <= Len(b) /\ a = SubSeq(b, 1, Len(a))

\* The batches of a pass are those of bs: a prefix while the pass runs, all
\* of them when it ends
BatchesAre(bs) == IsPrefix(batches, bs) /\ (apc = "endpass" => batches = bs)

-----------------------------------------------------------------------------
(* Properties of connectToWeatherStation *)

\* C4 as stated: whatever the transport does, a call of
\* connectToWeatherStation ends after a bounded number of attempts, by
\* returning or by raising; it never retries without bound.
C4_CallEnds == <>(cpc \in {"returned", "raised"})

-----------------------------------------------------------------------------
(* Properties of the live sample *)

FieldAbsent(k) == k \notin DOMAIN packet \/ packet[k] = Absent

\* C7 as stated: every sentinel reading gives an absent field in the sample
\* yielded: wind direction 32767, indoor and outdoor humidity 127,
\* temperatures, dew point, wind chill, pressure, barometer, wind speed and
\* gust >= 3276, cumulative rain >= 214748367, solar radiation > 2147480.
C7_SentinelsAbsent ==
    lpc = "yielded" =>
        /\ nowrecord[4] = 32767 => FieldAbsent("windDir")
        /\ nowrecord[5] = 127 => FieldAbsent("inHumidity")
        /\ nowrecord[6] = 127 => FieldAbsent("outHumidity")
        /\ nowrecord[7] >= 3276 => FieldAbsent("inTemp")
        /\ nowrecord[10] >= 3276 => FieldAbsent("outTemp")
        /\ nowrecord[11] >= 3276 => FieldAbsent("dewPoint")
        /\ nowrecord[12] >= 3276 => FieldAbsent("windChill")
        /\ nowrecord[8] >= 3276 => FieldAbsent("pressure")
        /\ nowrecord[9] >= 3276 => FieldAbsent("barometer")
        /\ nowrecord[13] >= 3276 => FieldAbsent("windSpeed")
        /\ nowrecord[14] >= 3276 => FieldAbsent("windGust")
        /\ nowrecord[16] >= RainSentinel => FieldAbsent("rain")
        /\ nowrecord[20] > 2147480 => FieldAbsent("radiation")

\* new - prior in tenths of mm, the readings being halves of the rain unit
RainDelta(new, prior) ==
    IF rain_unit = 0 THEN (new - prior) * 5 ELSE (new - prior) * 127

\* The time of day has not wrapped relative to the prior reading
SameDay == current_time > prev_rain_time

\* C8 as stated: the incremental rain is absent without a prior baseline,
\* new - prior (times 25.4 for inches) when new >= prior and the time of day
\* has not wrapped, and 0.0 otherwise.
C8_RainRule ==
    lpc = "yielded" =>
        IF prev_rain_value = None THEN packet["rain"] = Absent
        ELSE /\ packet["rain"] # Absent
             /\ IF nowrecord[16] >= prev_rain_value /\ SameDay
                THEN packet["rain"] = Some(RainDelta(nowrecord[16], prev_rain_value))
                ELSE packet["rain"] = Some(0)

\* C8 amended: the incremental rain is absent without a prior baseline and
\* also when the new cumulative reading is the sentinel (>= 214748367);
\* otherwise it is new - prior (times 25.4 for inches) when new >= prior and
\* the time of day has not wrapped, and 0.0 in every other case.
C8_RainRuleSentinel ==
    lpc = "yielded" =>
        IF prev_rain_value = None \/ nowrecord[16] >= RainSentinel
        THEN packet["rain"] = Absent
        ELSE IF nowrecord[16] >= prev_rain_value /\ SameDay
        THEN packet["rain"] = Some(RainDelta(nowrecord[16], prev_rain_value))
        ELSE packet["rain"] = Some(0)

\* C8 witness: baseline 10.0, then 12.5 later the same day, in inches: the
\* sample carries 2.5 in = 63.5 mm
C8_Witness ==
    /\ lpc = "yielded"
    /\ rain_unit = 1
    /\ prev_rain_value = RainReading(10, 0)
    /\ nowrecord[16] = RainReading(12, 1)
    /\ SameDay
    /\ packet["rain"] = Some(635)

\* C9: after every sample yielded the rain baseline is that poll's cumulative
\* reading and its time, whichever branch computed the incremental rain.
C9_BaselineFollowsPoll ==
    lpc = "yielded" =>
        /\ last_rain_value = nowrecord[16]
        /\ last_rain_time = current_time

\* C9 witness: a rollover (the reading fell below the baseline, the sample
\* carries 0.0) after which the baseline is the new, lower reading
C9_Witness ==
    /\ lpc = "yielded"
    /\ prev_rain_value = RainReading(12, 1)
    /\ nowrecord[16] = RainReading(1, 0)
    /\ packet["rain"] = Some(0)
    /\ last_rain_value = RainReading(1, 0)

-----------------------------------------------------------------------------
(* Properties of the session *)

\* A send or a receive on the established session fails in this step
SessionTransferFails ==
    \/ lpc = "send" /\ lpc' = "raised"
    \/ lpc = "recv" /\ lpc' = "head"
    \/ /\ apc \in {"index", "search", "fetch"}
       /\ apc' = "raised"
       /\ exc' \in {"RetriesExceeded", "socket.error"}

\* C11 as stated: when a NOWRECORD, HISTORY_FILE or HISTORY_DATA send or
\* receive on the session fails, ws_socket is None once the failing step has
\* handed control back (to the caller, or to the next connection attempt).
C11_FailureTearsDown == [][SessionTransferFails => ws_socket' = None]_vars

\* The setup read fails in this step: the SETUP command is not sent, or the
\* reply is not received or not decoded into the unit attributes
SetupReadFails ==
    \/ cpc = "setup_send" /\ cpc' # "setup_recv"
    \/ cpc = "setup_recv" /\ ~(cpc' = "while" /\ ws_socket' # None)

\* C12 as stated: any failure of the setup read (SETUP send, receive or
\* timeout, undecodable reply) discards the accepted connection, ws_socket
\* becoming None, and restarts discovery.
C12_SetupFailureDiscards ==
    [][SetupReadFails => (ws_socket' = None /\ cpc' = "while")]_vars

\* A socket-level failure (socket.error) in one of the five phases: the only
\* steps that count network_retry_count down
SocketFailure ==
    /\ cpc \in {"bcast_send", "bcast_recv", "bind", "accept", "setup_send"}
    /\ network_retry_count' = network_retry_count - 1

\* C13 as stated: within one call a socket-level failure in any phase
\* restarts the whole discovery while fewer than max_retry such failures
\* have occurred, and the max_retry-th raises RetriesExceeded.
C13_FailureBudget ==
    [][SocketFailure =>
         IF max_retry - network_retry_count' < max_retry
         THEN cpc' = "while"
         ELSE cpc' = "raised" /\ exc' = "RetriesExceeded"]_vars

\* C14 as stated: the accept phase tolerates retry_count timeouts whatever
\* the discovery phase consumed: on entering the accept loop the number of
\* timeouts left is retry_count.
C14_AcceptBudgetFresh ==
    [][(cpc = "bind" /\ cpc' = "accept") => retry_counter' = retry_count]_vars

-----------------------------------------------------------------------------
(* Properties of the year index and of the order of the records *)

\* The slots whose year is at or after the year of the start timestamp
Qualifying ==
    { i \in YearLo .. YearHi : interp_data[i] >= YearOf(lastTimestamp) }

\* C15 as stated: with a start timestamp the slot searched is the first one,
\* scanning from the newest slot towards the oldest, whose year is >= the
\* timestamp's year.
C15_FirstFromNewest ==
    apc = "search" =>
        /\ year_index \in Qualifying
        /\ \A i \in Qualifying : year_index <= i

\* C15 amended: with a start timestamp the slot searched is the first one,
\* scanning from the oldest slot (index 14) towards the newest (index 7),
\* whose year is >= the timestamp's year: of the qualifying slots, the one
\* of the oldest year.
C15_FirstFromOldest ==
    apc = "search" =>
        /\ year_index \in Qualifying
        /\ \A i \in Qualifying : i <= year_index

\* C15 witness: two slots qualify, the year of the timestamp and a later
\* year, and the search runs in the slot of the timestamp's year
C15_Witness ==
    /\ apc = "search"
    /\ interp_data[YearLo] > YearOf(lastTimestamp)
    /\ interp_data[YearLo + 1] = YearOf(lastTimestamp)
    /\ year_index = YearLo + 1

\* The start timestamp is later than every year of the index
NothingNew ==
    /\ T0 # None
    /\ \A i \in YearLo .. YearHi : interp_data[i] < YearOf(T0)

\* C16: with a start timestamp and no slot holding a year >= its year, the
\* generator ends after the index read: nothing is yielded, no HISTORY_DATA
\* request is made (no probe, no batch, no record decoded), and the only
\* exception possible is the one of a failed index read.
C16_NothingNewNothingRead ==
    NothingNew =>
        /\ apc \in {"index", "done", "raised"}
        /\ yielded = {} /\ pass_yields = <<>> /\ batches = <<>>
        /\ lower = Unset /\ record_datetime = Unset
        /\ apc = "raised" => exc = "RetriesExceeded"

\* C16 witness: an index holding data, all of it of earlier years, and the
\* generator has returned
C16_Witness ==
    /\ NothingNew
    /\ PopulatedSlots # {}
    /\ apc = "done"

\* The populated slot of the oldest year
OldestSlot ==
    CHOOSE i \in PopulatedSlots :
        \A j \in PopulatedSlots : interp_data[i] <= interp_data[j]

\* C17 as stated: without a start timestamp the pass starts at record 0 of
\* the populated slot of the oldest year, no record is probed, and the first
\* sample yielded is record 0 of that year.
C17_StartsAtOldestRecordZero ==
    (lastTimestamp = None /\ PopulatedSlots # {}) =>
        /\ first_year # Unset => (first_year = OldestSlot /\ first_start = 0)
        /\ lower = Unset
        /\ pass_yields = <<>> => record_datetime = Unset
        /\ pass_yields # <<>> => pass_yields[1] = <<OldestSlot, 0>>

\* Two records yielded one after the other: the next index of the same
\* year, or record 0 of a more recent year (a lower slot)
Follows(a, b) ==
    \/ b[1] = a[1] /\ b[2] = a[2] + 1
    \/ b[1] < a[1] /\ b[2] = 0

YieldsInOrder ==
    \A i \in 1 .. (Len(pass_yields) - 1) :
        /\ Follows(pass_yields[i], pass_yields[i + 1])
        /\ RecordTime(pass_yields[i][1], pass_yields[i][2])
             < RecordTime(pass_yields[i + 1][1], pass_yields[i + 1][2])

\* C18: within a pass the year changes only at the end of a batch, to the
\* slot one lower (the next more recent year) at record 0; the records of a
\* year are yielded in increasing index order, no year before an older one,
\* and the timestamps of the samples yielded are strictly increasing.
C18_OldestFirstInOrder ==
    /\ []YieldsInOrder
    /\ [][year_index' # year_index /\ year_index # Unset /\ apc \notin {"index"} =>
            /\ apc = "endbatch"
            /\ year_index' = year_index - 1
            /\ start_record' = 0]_vars

\* C18 witness: a pass that yielded records of one year and then of a more
\* recent one
C18_Witness ==
    /\ Len(pass_yields) >= 3
    /\ pass_yields[1][1] > pass_yields[Len(pass_yields)][1]

-----------------------------------------------------------------------------
(* Properties of the driver with both generators *)

\* A command of the live path has been sent and its reply is still unread
ReplyUnread == lpc = "recv" \/ cpc = "setup_recv"

\* A command is sent on the connection in this step
CommandSent ==
    \/ lpc = "send" /\ lpc' = "recv"
    \/ cpc = "setup_send" /\ cpc' = "setup_recv"
    \/ Connected /\ apc \in {"index", "fetch"} /\ apc' # apc
    \/ Connected /\ apc = "search" /\ lower # upper /\ ~(UNCHANGED archVars)

\* C19 as stated: when the host interleaves pulls of genLoopPackets and
\* genStartupRecords, no command is sent on ws_socket while the reply to an
\* earlier command is unread, and every reply is read by the path that sent
\* the command: no step of one path happens between a send of the other
\* path and its receive.
C19_TransportSerialized ==
    [][/\ CommandSent => (unread = "" /\ ~ReplyUnread)
       /\ ReplyUnread => UNCHANGED archVars
       /\ ~(UNCHANGED archVars) =>
            /\ lpc \in {"start", "yielded", "raised"}
            /\ UNCHANGED <<lpc, cpc, ws_socket>>]_vars

\* The session is up and its unit selectors have been populated
SessionUp ==
    /\ ws_socket # None
    /\ cpc \notin {"setup_send", "setup_recv"}

\* C20 as stated: while a session is up no operation, in any mode, changes
\* temperature_unit, pressure_unit, wind_unit, rain_unit or solar_unit.
C20_UnitsFixed ==
    [][(SessionUp /\ ws_socket' # None) => UNCHANGED unitVars]_vars

\* A poll of internal test mode happens in this step
TestPollStep == internal_test_mode /\ lpc = "send" /\ lpc' # "send"

\* C20 amended: while a session is up no operation changes the five unit
\* selectors, except that in internal test mode every live poll moves each
\* selector on by one, back to 0 after its last value (1, 2, 5, 1, 2 for
\* temperature, pressure, wind, rain, solar).
C20_UnitsFixedOutsideTestMode ==
    [][(SessionUp /\ ws_socket' # None) =>
         IF TestPollStep
         THEN /\ temperature_unit' = (temperature_unit + 1) % 2
              /\ pressure_unit' = (pressure_unit + 1) % 3
              /\ wind_unit' = (wind_unit + 1) % 6
              /\ rain_unit' = (rain_unit + 1) % 2
              /\ solar_unit' = (solar_unit + 1) % 3
         ELSE UNCHANGED unitVars]_vars

\* C20 witness: a session in normal mode during which samples were yielded
\* by the live path and by the replay, the units being the station's
C20_Witness ==
    /\ ~internal_test_mode
    /\ ws_socket # None
    /\ lpc = "yielded"
    /\ pass_yields # <<>>
    /\ <<temperature_unit, pressure_unit, wind_unit, rain_unit, solar_unit>>
         = <<station_units.temperature, station_units.pressure,
             station_units.wind, station_units.rain, station_units.solar>>

-----------------------------------------------------------------------------
(* Properties of the rain of the replayed records *)

\* The first sample of the invocation has just been yielded
FirstYield == first_pass /\ at_yield /\ Len(pass_yields) = 1

\* C21: at the start of each stream the rain accumulator is reset to "no
\* baseline": the first sample genStartupRecords yields, with or without a
\* start timestamp, has incremental rain absent.
C21_FirstRainAbsent == FirstYield => rec_rain = Absent

-----------------------------------------------------------------------------
(* Properties of the command packet *)

RECURSIVE RStripNul(_)
RStripNul(str) ==
    IF str # <<>> /\ str[Len(str)] = Nul
    THEN RStripNul(SubSeq(str, 1, Len(str) - 1)) ELSE str

\* C22: for a command of at most 8 and an argument of at most 12 characters
\* create_cmd_string returns exactly 40 bytes, and bytes 0-8, 8-16 and 16-28
\* with their trailing nulls stripped are the sender 'PC2000', the command
\* and the argument; the rest is null fill.
C22_PacketRoundTrip ==
    cmd_packet # <<>> =>
        /\ Len(cmd_packet) = PacketLen
        /\ RStripNul(SubSeq(cmd_packet, 1, SenderWidth)) = PC2000
        /\ RStripNul(SubSeq(cmd_packet, SenderWidth + 1,
                            SenderWidth + CmdWidth)) = cmd
        /\ RStripNul(SubSeq(cmd_packet, SenderWidth + CmdWidth + 1,
                            SenderWidth + CmdWidth + ArgWidth)) = argument
        /\ \A i \in (SenderWidth + CmdWidth + ArgWidth + 1) .. PacketLen :
              cmd_packet[i] = Nul

\* C22 witness: a packet built from a command that fills its field and an
\* argument shorter than its field
C22_Witness ==
    /\ cmd_packet # <<>>
    /\ Len(cmd) = CmdWidth
    /\ Len(argument) \in 1 .. (ArgWidth - 1)

-----------------------------------------------------------------------------
(* Properties of the binary search *)

\* A probe was made and answered in this step
ProbeAnswered == apc = "search" /\ lower # upper /\ apc' # "raised"

\* C23: for any record count of the selected year and any timestamp the
\* binary search terminates: lower <= upper at every step, every probe index
\* lies within [0, count - 1], and each probe either ends the search or
\* strictly shrinks the interval [lower, upper].
C23_SearchShrinks ==
    /\ [](apc = "search" => lower <= upper)
    /\ [][ProbeAnswered =>
            /\ (upper + lower) \div 2 \in 0 .. (YearCount(year_index) - 1)
            /\ \/ apc' = "check"
               \/ /\ lower <= lower' /\ upper' <= upper /\ lower' <= upper'
                  /\ upper' - lower' < upper - lower]_vars

-----------------------------------------------------------------------------
(* Properties of the batch requests *)

\* C24: every HISTORY_DATA batch request sent while paging through a year
\* asks for exactly min(100, count - start_index) records: never zero, never
\* past the last record of the year.
C24_BatchIsRemainder ==
    apc = "fetch" =>
        LET remaining == YearCount(year_index) - start_record
        IN /\ record_count = (IF BatchSize <= remaining THEN BatchSize
                                                        ELSE remaining)
           /\ record_count > 0
           /\ start_record + record_count <= YearCount(year_index)

-----------------------------------------------------------------------------
(* Properties of a start after the last record *)

\* The start timestamp lies in the newest year the station holds or after
\* it, later than every record of that year
StartAfterLast ==
    /\ T0 # None
    /\ interp_data[YearLo] # 0
    /\ YearOf(T0) >= interp_data[YearLo]
    /\ \A i \in IndicesOf(YearLo) : RecordTime(YearLo, i) < T0

\* C25: when the start timestamp is later than every record of the newest
\* year, the binary search resolves to the index of the last record
\* (count - 1) and genStartupRecords completes: it yields no sample, sends
\* no batch request, starts no paging and no second pass, and nothing but a
\* failed transfer raises.
C25_NothingAfterLast ==
    StartAfterLast =>
        /\ yielded = {} /\ batches = <<>>
        /\ apc \in {"index", "search", "check", "done", "raised"}
        /\ first_pass
        /\ apc = "check" =>
              (year_index = YearLo /\ start_record = YearCount(YearLo) - 1)
        /\ apc = "raised" => exc \in {"RetriesExceeded", "socket.error"}

\* C25 witness: the generator has completed after a search with probes over
\* a full newest year resolved to its last index
C25_Witness ==
    /\ StartAfterLast
    /\ apc = "done"
    /\ YearCount(YearLo) = MaxCount
    /\ record_datetime # Unset
    /\ start_record = MaxCount - 1

-----------------------------------------------------------------------------
(* Properties of the passes of one invocation *)

\* C26 as stated: one invocation fetches the year index once and traverses
\* the known years once; after the newest year is exhausted the invocation
\* completes, without fetching the index again.
C26_SinglePass == [][apc = "endpass" => apc' = "done"]_vars

\* C26 amended: after the newest year is exhausted the invocation goes
\* around again: it sets lastTimestamp to the whole seconds of the record
\* decoded last and fetches the year index again (UnboundLocalError when the
\* invocation decoded no record); it completes only when no year slot
\* qualifies for lastTimestamp or when the start resolves to the last record
\* of the newest year.
C26_GoesAroundAgain ==
    /\ [][apc = "endpass" =>
            IF record_datetime = Unset
            THEN apc' = "raised" /\ exc' = "UnboundLocalError"
            ELSE /\ apc' = "index"
                 /\ lastTimestamp' = record_datetime
                                        - (record_datetime % TicksPerSec)]_vars
    /\ [](apc = "done" =>
            \/ lastTimestamp # None /\ SlotsFrom(YearOf(lastTimestamp)) = {}
            \/ /\ year_index = YearLo
               /\ start_record = YearCount(YearLo) - 1)

\* C26 witness: a sample yielded in a second pass, after the index was
\* fetched again
C26_Witness ==
    /\ ~first_pass
    /\ at_yield
    /\ pass_yields # <<>>
    /\ lastTimestamp # T0

-----------------------------------------------------------------------------
(* Properties of the two rain rules *)

\* C27: given the same observations once a baseline exists, the replay
\* derives the same incremental rain for every observation as the live
\* generator, also for two observations with the same time of day and for
\* observations carrying the rain sentinel.
C27_SameRain == lpc = "yielded" => rec_rain = packet["rain"]

-----------------------------------------------------------------------------
(* Properties of the wind and pressure fields of the live sample *)

\* C28: for every wind unit (m/s, km/h, knot, mph, Beaufort, ft/s) a raw
\* wind speed or wind gust reading of 3276 or more gives an absent windSpeed
\* or windGust in the live sample.
C28_WindSentinelRaw ==
    lpc = "yielded" =>
        \A u \in 0 .. 5 :
            wind_unit = u =>
                /\ nowrecord[13] >= 3276 => packet["windSpeed"] = Absent
                /\ nowrecord[14] >= 3276 => packet["windGust"] = Absent

\* C29: the pressure field is determined by the raw pressure reading only
\* and the barometer field by the raw barometer reading only: a barometer
\* sentinel makes barometer absent and leaves the pressure computed from a
\* valid raw pressure in place.
C29_PressureIndependent ==
    lpc = "yielded" =>
        /\ nowrecord[9] >= 3276 => FieldAbsent("barometer")
        /\ nowrecord[8] < 3276 =>
              ("pressure" \in DOMAIN packet
               /\ packet["pressure"] = Some(PressureToMetric(nowrecord[8],
                                                             pressure_unit)))
        /\ nowrecord[8] >= 3276 => FieldAbsent("pressure")

-----------------------------------------------------------------------------
(* Properties of the retries of the live poll *)

\* A NOWRECORD receive fails in this step and the loop goes back to connect
ReceiveFails == lpc = "recv" /\ lpc' = "head"

\* C30: a live poll whose reply never arrives is not retried forever: only
\* a bounded number of NOWRECORD receives fail, each followed by a
\* reconnect, before the pull raises RetriesExceeded.
C30_ReceiveRetriesBounded == <>[][~ReceiveFails]_vars

-----------------------------------------------------------------------------
(* Properties of the send budget of the live generator *)

\* A NOWRECORD send fails in this step
SendFails == lpc = "send" /\ ~internal_test_mode /\ lpc' # "recv"

\* C31: the budget of genLoopPackets for send failures is used up over the
\* whole life of the generator and never refilled: every failed NOWRECORD
\* send takes one from network_retry_count, the generator goes on polling
\* while the count is above 0, and the max_retry-th failure raises
\* RetriesExceeded, samples yielded in between or not.
C31_SendBudgetCumulative ==
    [][/\ SendFails =>
            /\ loop_retry_count' = loop_retry_count - 1
            /\ IF loop_retry_count' > 0
               THEN lpc' = "head"
               ELSE lpc' = "raised" /\ exc' = "RetriesExceeded"
       /\ lpc \notin {"idle", "start"} =>
            loop_retry_count' <= loop_retry_count]_vars

-----------------------------------------------------------------------------
(* Properties of the unit profile of a session *)

\* A call of connectToWeatherStation has returned normally: the call of
\* genLoopPackets, or the call genStartupRecords makes before its first
\* transfer
ConnectReturned ==
    \/ cpc = "returned"
    \/ apc \notin {"idle", "raised"} /\ ~(apc = "index" /\ at_yield)

\* C32: whenever connectToWeatherStation has returned normally and
\* ws_socket is not None, the five unit selectors are those of the SETUP
\* reply read on that connection: never unset, never left over.
C32_ReadyHasUnits ==
    (~internal_test_mode /\ ConnectReturned /\ ws_socket # None) =>
        /\ temperature_unit = station_units.temperature
        /\ pressure_unit = station_units.pressure
        /\ wind_unit = station_units.wind
        /\ rain_unit = station_units.rain
        /\ solar_unit = station_units.solar

-----------------------------------------------------------------------------
(* Properties of the records yielded across the passes *)

\* A record is yielded in this step
YieldStep == apc = "records" /\ apc' # "raised"

\* C33: within one invocation of genStartupRecords, across all of its
\* passes, no record (year, index) is yielded more than once: a repeated
\* pass resumes strictly after the last record already yielded.
C33_NoRecordTwice ==
    [][YieldStep => <<year_index, rec_pos>> \notin yielded]_vars

-----------------------------------------------------------------------------
(* Properties of the local variables of genStartupRecords *)

\* C34: genStartupRecords never reads a variable it has not assigned:
\* last_rain_value is set whenever a record is processed in a pass started
\* from a timestamp, and record_datetime is set whenever a pass ends, also
\* for a selected year of one record (no probe) and for a pass that yields
\* no record.
C34_LocalsAssigned ==
    /\ apc = "raised" => exc # "UnboundLocalError"
    /\ (apc = "records" /\ last_record_date # None
        /\ RecordRainValue(RecordRain(rec_pos)) # None) =>
            local_last_rain_value # Unset
    /\ apc = "endpass" => record_datetime # Unset

====
